---- MODULE Spec2Model ----
(***************************************************************************)
(* A model of velox/exec/AddressableNonNullValueList.cpp (the positioned   *)
(* value store) and velox/exec/DistinctAggregations.cpp (the per-group     *)
(* distinct accumulator wrapping an aggregate function).                   *)
(*                                                                         *)
(* Two specifications share the module:                                    *)
(*   StoreSpec  one AddressableNonNullValueList over one allocator         *)
(*   Spec       one TypedDistinctAggregations<int64_t> over a set of       *)
(*              group rows                                                 *)
(*   CreateSpec     DistinctAggregations::create on its own                *)
(*   CompositeSpec  one TypedDistinctAggregations<ComplexType> over one    *)
(*                  group row and several input columns                    *)
(*   RoutingSpec    addInput and addSingleGroupInput on their own          *)
(***************************************************************************)
EXTENDS Integers, Sequences, FiniteSets, TLC

VARIABLES
    \* ---- AddressableNonNullValueList and its allocator ----
    blocks,            \* sizes of the blocks of the chain, in chain order
    mem,               \* the bytes of the chain, block after block
    firstHeader_,      \* 0 (null) or the index of the first block
    newWrites,         \* number of newWrite requests made to the allocator
    currentPosition_,  \* where the next write starts
    size_,             \* number of values appended
    positions,         \* the Positions returned to the caller, in order
    appended,          \* the bytes the caller handed to the i-th append
    origin,            \* origin[i] = p when append i wrote a full copy of p
    copyOut,           \* outcome of the last copySerializedTo call
    \* ---- TypedDistinctAggregations<int64_t> and its group rows ----
    alive,             \* alive[g]: row g holds a constructed SetAccumulator
    uniqueValues,      \* uniqueValues[g]: the set's values, in insertion order
    aggState,          \* wrapped aggregate's state in row g
    fed,               \* rows the last extractValues fed to the aggregate
    result,            \* result batch of the last extractValues
    calls,             \* calls the last extractValues made on the aggregate
    spill,             \* column written by the last extractForSpill
    mode,              \* history of row g since it was initialized
    added,             \* values row g is expected to hold, by its history
    rowSize,           \* rowSize[g]: the row-size counter of row g
    allocated,         \* bytes the allocator handed out for row g's set
    nullBit,           \* nullBit[g]: group[nullByte_] & nullMask_ is set
    \* ---- calls checked on their own ----
    factory,           \* arguments and outcome of DistinctAggregations::create
    composite,         \* a TypedDistinctAggregations<ComplexType> and its row
    routing            \* rows and batch given to addInput, and what it left

aggVars == <<alive, uniqueValues, aggState, fed, result, calls, spill, mode,
             added, rowSize, allocated, nullBit>>

storeVars == <<blocks, mem, firstHeader_, newWrites, currentPosition_, size_,
               positions, appended, origin, copyOut>>

callVars == <<factory, composite, routing>>

\* ------------------------------------------------------------------ bounds

\* Number of append / appendSerialized calls made on the store.
MaxAppends == 3

\* Number of rows of an input batch.
MaxRows == 2

\* Bytes allocated for the set of one row between its initialization and its
\* destruction.
MaxRowBytes == 16

\* ------------------------------------------------------- program constants

kInitialSize == 44
kHashSize == 8
kReserveBytes == 1024

\* Width of the length prefix ContainerRowSerde writes before a varchar.
kLengthSize == 4

\* Size of the block the allocator adds when a write outgrows the chain.
kMinRangeSize == 64

\* ---------------------------------------------------------------- helpers

Min(a, b) == IF a < b THEN a ELSE b
Max(a, b) == IF a > b THEN a ELSE b

RECURSIVE SumSeq(_)
SumSeq(s) == IF s = <<>> THEN 0 ELSE Head(s) + SumSeq(Tail(s))

Const(n, b) == [i \in 1..n |-> b]

\* Little-endian encoding of n in w bytes. A uint64_t is kept as its eight
\* little-endian bytes throughout, an int32_t length is decoded by FromLE4.
RECURSIVE LE(_, _)
LE(n, w) == IF w = 0 THEN <<>> ELSE <<n % 256>> \o LE(n \div 256, w - 1)

\* The int32_t held by four little-endian bytes; -1 when a byte is missing
\* or the value is beyond any length the model stores.
FromLE4(bs) ==
    IF (\E i \in 1..4 : bs[i] < 0) \/ bs[3] # 0 \/ bs[4] # 0
    THEN -1
    ELSE bs[1] + 256 * bs[2]

\* The varchar values appended to the store: a short one (three of its
\* records do not fit the initial block) and one whose record alone is
\* larger than the initial block.
SmallValue == Const(7, 1)
BigValue == Const(40, 3)
StringValues == {SmallValue, BigValue}

\* Contents a freshly allocated (uninitialized) block may hold.
FillBytes == {0, 255}

\* BaseVector::hashValueAt of a varchar.
hashValueAt(v) == Len(v) * 257 + v[1]

\* ContainerRowSerde::serialize of a varchar: length prefix, then the bytes.
serialize(v) == LE(Len(v), kLengthSize) \o v

\* The record append writes for v.
RecordOf(v) == LE(hashValueAt(v), kHashSize) \o serialize(v)

\* ------------------------------------------------ allocator and its streams

BlockStart(bl, h) == SumSeq(SubSeq(bl, 1, h - 1))

\* A chain is [blocks, mem]; an output stream over it adds the write offset.
NewRangeSize(n) == Max(n, kMinRangeSize)

Overwrite(m, at, data) ==
    [i \in 1..Len(m) |->
        IF i > at /\ i <= at + Len(data) THEN data[i - at] ELSE m[i]]

\* ByteOutputStream::append: fills the current range and asks the allocator
\* for a new range when the bytes do not fit.
StreamAppend(st, data, fill) ==
    LET room == Len(st.mem) - st.pos
        grow == Len(data) > room
        add == IF grow THEN NewRangeSize(Len(data) - room) ELSE 0
        bl2 == IF grow THEN Append(st.blocks, add) ELSE st.blocks
        m2 == IF grow THEN st.mem \o Const(add, fill) ELSE st.mem
    IN [blocks |-> bl2, mem |-> Overwrite(m2, st.pos, data),
        pos |-> st.pos + Len(data)]

\* HashStringAllocator::newWrite: a first block of the preferred size; the
\* stream writes from its beginning.
newWrite(preferredSize, fill) ==
    [blocks |-> <<preferredSize>>, mem |-> Const(preferredSize, fill),
     pos |-> 0]

\* HashStringAllocator::extendWrite: the stream writes from `position`; blocks
\* chained after the position's block are released.
extendWrite(position, bl, m) ==
    LET keep == BlockStart(bl, position.header + 1)
    IN [blocks |-> SubSeq(bl, 1, position.header),
        mem |-> SubSeq(m, 1, keep),
        pos |-> BlockStart(bl, position.header) + position.offset]

\* HashStringAllocator::finishWrite: the position after the last byte written,
\* in the last block; at most numReserveBytes stay allocated behind it.
allocFinishWrite(st, numReserveBytes) ==
    LET last == Len(st.blocks)
        off == st.pos - BlockStart(st.blocks, last)
        keep == Min(st.blocks[last], off + numReserveBytes)
    IN [blocks |-> [st.blocks EXCEPT ![last] = keep],
        mem |-> SubSeq(st.mem, 1, BlockStart(st.blocks, last) + keep),
        finish |-> [header |-> last, offset |-> off]]

\* ---------------------------------------------- AddressableNonNullValueList

NoPosition == [header |-> 0, offset |-> 0]

\* makeOutputStream that asks for a new write every time.
makeOutputStreamAlwaysNew(fill) ==
    [st |-> newWrite(kInitialSize, fill),
     start |-> [header |-> 1, offset |-> 0],
     first |-> 1,
     newWrites |-> 1]

\* makeOutputStream: newWrite on the first use, extendWrite afterwards.
\* Returns the stream, the position the write starts at, and the number of
\* newWrite requests it made.
makeOutputStream(fill) ==
    IF firstHeader_ = 0
    THEN [st |-> newWrite(kInitialSize, fill),
          start |-> [header |-> 1, offset |-> 0],
          first |-> 1,
          newWrites |-> 1]
    ELSE [st |-> extendWrite(currentPosition_, blocks, mem),
          start |-> currentPosition_,
          first |-> firstHeader_,
          newWrites |-> 0]

\* finishWrite with the write cursor left where it was.
finishWriteStale(out, st) ==
    LET fin == allocFinishWrite(st, kReserveBytes)
    IN [blocks |-> fin.blocks, mem |-> fin.mem,
        current |-> out.start, result |-> out.start]

\* finishWrite: counts the value, moves currentPosition_ behind the record and
\* returns the position the record starts at.
finishWrite(out, st) ==
    LET fin == allocFinishWrite(st, kReserveBytes)
    IN [blocks |-> fin.blocks, mem |-> fin.mem,
        current |-> fin.finish, result |-> out.start]

\* append with the value written before its hash.
appendValueFirst(v, fill) ==
    LET out == makeOutputStream(fill)
        s1 == StreamAppend(out.st, serialize(v), fill)
        s2 == StreamAppend(s1, LE(hashValueAt(v), kHashSize), fill)
    IN [out |-> out, st |-> s2]

\* append: the hash (appendOne), then the serialized value.
append(v, fill) ==
    LET out == makeOutputStream(fill)
        s1 == StreamAppend(out.st, LE(hashValueAt(v), kHashSize), fill)
        s2 == StreamAppend(s1, LE(Len(v), kLengthSize), fill)
        s3 == StreamAppend(s2, v, fill)
    IN [out |-> out, st |-> s3]

\* appendSerialized: the given bytes, as they are.
appendSerialized(data, fill) ==
    LET out == makeOutputStream(fill)
    IN [out |-> out, st |-> StreamAppend(out.st, data, fill)]

\* An input stream is [base, size, pos]: the chain from a block on.
\* HashStringAllocator::prepareRead(header) ranges over every block from
\* `header` to the end of the chain.
allocPrepareRead(header) ==
    [base |-> BlockStart(blocks, header),
     size |-> SumSeq(SubSeq(blocks, header, Len(blocks))),
     pos |-> 0]

\* prepareRead: seek to the position, then skip the hash when asked to.
prepareRead(position, skipHash) ==
    LET stream == allocPrepareRead(position.header)
    IN [stream EXCEPT !.pos =
            position.offset + (IF skipHash THEN kHashSize ELSE 0)]

\* A byte past the end of the chain reads as -1.
MemAt(i) == IF i \in 1..Len(mem) THEN mem[i] ELSE -1

StreamRead(stream, n) ==
    [i \in 1..n |-> IF stream.pos + i <= stream.size
                    THEN MemAt(stream.base + stream.pos + i) ELSE -1]

StreamSkip(stream, n) == [stream EXCEPT !.pos = @ + n]

\* ContainerRowSerde::deserialize of a varchar; <<-1>> when the length read
\* runs past the stream.
deserialize(stream) ==
    LET lenBytes == StreamRead(stream, kLengthSize)
        len == FromLE4(lenBytes)
    IN IF len < 0 \/ stream.pos + kLengthSize + len > stream.size
       THEN <<-1>>
       ELSE StreamRead(StreamSkip(stream, kLengthSize), len)

\* readHash: stream.read<uint64_t>() at the position.
readHash(position) == StreamRead(prepareRead(position, FALSE), kHashSize)

read(position) == deserialize(prepareRead(position, TRUE))

\* ContainerRowSerde::compare(...) == 0 on the two payloads.
equalTo(left, right) ==
    deserialize(prepareRead(left, TRUE)) = deserialize(prepareRead(right, TRUE))

getSerializedSize(position) == prepareRead(position, FALSE).size

\* copySerializedTo that copies what fits and checks the size afterwards.
copySerializedToLateCheck(position, capacity, old) ==
    LET stream == prepareRead(position, FALSE)
        streamSize == stream.size
        n == Min(capacity, streamSize)
    IN [status |-> IF capacity >= streamSize THEN "ok" ELSE "fatal",
        buffer |-> StreamRead([stream EXCEPT !.pos = 0], n)
                     \o SubSeq(old, n + 1, Len(old)),
        ret |-> IF capacity >= streamSize THEN streamSize ELSE 0]

\* copySerializedTo: VELOX_CHECK_GE(size, streamSize), then seekp(0) and
\* readBytes(buffer, streamSize). `old` is the caller's buffer of `capacity`
\* bytes; the result is the buffer afterwards.
copySerializedTo(position, capacity, old) ==
    LET stream == prepareRead(position, FALSE)
        streamSize == stream.size
    IN IF capacity >= streamSize
       THEN [status |-> "ok",
             buffer |-> StreamRead([stream EXCEPT !.pos = 0], streamSize)
                          \o SubSeq(old, streamSize + 1, Len(old)),
             ret |-> streamSize]
       ELSE [status |-> "fatal", buffer |-> old, ret |-> 0]

\* ------------------------------------------------------------ store actions

NoCopy == [status |-> "none", buffer |-> <<>>, ret |-> 0, from |-> 0,
           capacity |-> 0, reported |-> 0]

StoreInit ==
    /\ blocks = <<>>
    /\ mem = <<>>
    /\ firstHeader_ = 0
    /\ newWrites = 0
    /\ currentPosition_ = NoPosition
    /\ size_ = 0
    /\ positions = <<>>
    /\ appended = <<>>
    /\ origin = <<>>
    /\ copyOut = NoCopy

\* The common tail of append and appendSerialized.
Commit(w, data, from) ==
    LET fin == finishWrite(w.out, w.st)
    IN /\ blocks' = fin.blocks
       /\ mem' = fin.mem
       /\ firstHeader_' = w.out.first
       /\ newWrites' = newWrites + w.out.newWrites
       /\ currentPosition_' = fin.current
       /\ size_' = size_ + 1
       /\ positions' = Append(positions, fin.result)
       /\ appended' = Append(appended, data)
       /\ origin' = Append(origin, from)

AppendValue ==
    /\ size_ < MaxAppends
    /\ \E v \in StringValues, fill \in FillBytes :
          Commit(append(v, fill), RecordOf(v), 0)
    /\ UNCHANGED copyOut
    /\ UNCHANGED <<aggVars, callVars>>

\* appendSerialized of a record that was serialized elsewhere.
AppendSerializedRecord ==
    /\ size_ < MaxAppends
    /\ \E v \in StringValues, fill \in FillBytes :
          Commit(appendSerialized(RecordOf(v), fill), RecordOf(v), 0)
    /\ UNCHANGED copyOut
    /\ UNCHANGED <<aggVars, callVars>>

\* appendSerialized of the bytes the last copySerializedTo returned into a
\* buffer of the size getSerializedSize reported.
AppendSerializedCopy ==
    /\ size_ < MaxAppends
    /\ copyOut.status = "ok"
    /\ copyOut.capacity = copyOut.reported
    /\ \E fill \in FillBytes :
          LET data == SubSeq(copyOut.buffer, 1, copyOut.ret)
          IN Commit(appendSerialized(data, fill), data, copyOut.from)
    /\ UNCHANGED copyOut
    /\ UNCHANGED <<aggVars, callVars>>

\* copySerializedTo(positions[i], buffer, capacity) into a zeroed buffer whose
\* capacity is the reported size, one less, or one more.
CopySerialized ==
    /\ \E i \in 1..Len(positions) :
          LET reported == getSerializedSize(positions[i])
          IN \E capacity \in {reported - 1, reported, reported + 1} :
                LET r == copySerializedTo(positions[i], capacity,
                                          Const(capacity, 0))
                IN copyOut' = [status |-> r.status, buffer |-> r.buffer,
                               ret |-> r.ret, from |-> i,
                               capacity |-> capacity, reported |-> reported]
    /\ UNCHANGED <<blocks, mem, firstHeader_, newWrites, currentPosition_,
                   size_, positions, appended, origin>>
    /\ UNCHANGED <<aggVars, callVars>>

\* ------------------------------------------------- distinct aggregations

\* The group rows the operator owns, and the bigint values of the input
\* column.
Groups == {1, 2}
Values == {5, 7}

SetOf(s) == {s[i] : i \in 1..Len(s)}

kValueSize == 8

\* BaseVector::hashValueAt of a bigint.
hashBigint(v) == v * 31 + 17

\* The element record of the spill format: hash, then the value.
ElementRecord(v) == LE(hashBigint(v), kHashSize) \o LE(v, kValueSize)

RECURSIVE ConcatRecords(_)
ConcatRecords(s) ==
    IF s = <<>> THEN <<>> ELSE ElementRecord(Head(s)) \o ConcatRecords(Tail(s))

\* The values of the records lying back-to-back in a byte string.
RECURSIVE DecodeRecords(_)
DecodeRecords(bytes) ==
    IF Len(bytes) < kHashSize + kValueSize
    THEN <<>>
    ELSE <<bytes[kHashSize + 1] + 256 * bytes[kHashSize + 2]>>
           \o DecodeRecords(SubSeq(bytes, kHashSize + kValueSize + 1,
                                   Len(bytes)))

\* ---- SetAccumulator<int64_t> ----

\* addValue: inserts the value unless the set holds it.
setAddValue(s, v) == IF v \in SetOf(s) THEN s ELSE Append(s, v)

setSize(s) == Len(s)

\* extractValues: the values, each once.
setExtractValues(s) == s

maxSpillSize(s) == Len(s) * (kHashSize + kValueSize)

\* extractForSpill(data, size): the records of the set written to data;
\* returns the bytes written.
setExtractForSpill(s, capacity) ==
    IF maxSpillSize(s) <= capacity THEN ConcatRecords(s) ELSE <<>>

RECURSIVE AddAll(_, _)
AddAll(s, vs) ==
    IF vs = <<>> THEN s ELSE AddAll(setAddValue(s, Head(vs)), Tail(vs))

\* addFromSpill(vector, allocator): inserts every record of every string of
\* the vector.
RECURSIVE addFromSpill(_, _)
addFromSpill(s, vector) ==
    IF vector = <<>> THEN s
    ELSE addFromSpill(AddAll(s, DecodeRecords(Head(vector))), Tail(vector))

setClear(s) == <<>>

\* Bytes the set draws from the allocator when it grows from `before` to
\* `after`.
allocatedBy(before, after) == (Len(after) - Len(before)) * kValueSize

\* ---- RowSizeTracker ----

\* The tracker adds to the row's counter the bytes the allocator handed out
\* while it was in scope.
RowSizeTracker(counter, delta) == counter + delta

\* ---- TypedDistinctAggregations ----

\* The rows as an operation sees them: the sets, the row-size counters, and
\* the bytes allocated for each row's set.
Rows == [sets |-> uniqueValues, rowSize |-> rowSize, allocated |-> allocated]

\* addInput that inserts every selected row into the group of row 1.
RECURSIVE addInputFirstGroup(_, _, _, _, _)
addInputFirstGroup(st, groups, input, rows, i) ==
    IF i > Len(input) THEN st
    ELSE addInputFirstGroup(
             IF i \in rows
             THEN LET group == groups[1]
                      s == setAddValue(st.sets[group], input[i])
                      delta == allocatedBy(st.sets[group], s)
                  IN [sets |-> [st.sets EXCEPT ![group] = s],
                      rowSize |-> [st.rowSize EXCEPT
                                      ![group] = RowSizeTracker(@, delta)],
                      allocated |-> [st.allocated EXCEPT ![group] = @ + delta]]
             ELSE st,
             groups, input, rows, i + 1)

\* addInput that visits every row of the batch, selected or not.
RECURSIVE addInputEveryRow(_, _, _, _, _)
addInputEveryRow(st, groups, input, rows, i) ==
    IF i > Len(input) THEN st
    ELSE addInputEveryRow(
             LET group == groups[i]
                 s == setAddValue(st.sets[group], input[i])
                 delta == allocatedBy(st.sets[group], s)
             IN [sets |-> [st.sets EXCEPT ![group] = s],
                 rowSize |-> [st.rowSize EXCEPT
                                 ![group] = RowSizeTracker(@, delta)],
                 allocated |-> [st.allocated EXCEPT ![group] = @ + delta]],
             groups, input, rows, i + 1)

\* addInput: rows.applyToSelected inserts row i into the set of groups[i],
\* under a RowSizeTracker on that row's counter. Called with i = 1; returns
\* the rows afterwards.
RECURSIVE addInput(_, _, _, _, _)
addInput(st, groups, input, rows, i) ==
    IF i > Len(input) THEN st
    ELSE addInput(
             IF i \in rows
             THEN LET group == groups[i]
                      s == setAddValue(st.sets[group], input[i])
                      delta == allocatedBy(st.sets[group], s)
                  IN [sets |-> [st.sets EXCEPT ![group] = s],
                      rowSize |-> [st.rowSize EXCEPT
                                      ![group] = RowSizeTracker(@, delta)],
                      allocated |-> [st.allocated EXCEPT ![group] = @ + delta]]
             ELSE st,
             groups, input, rows, i + 1)

\* The applyToSelected loop of addSingleGroupInput: every selected row goes
\* into the one set.
RECURSIVE addSelected(_, _, _, _)
addSelected(s, input, rows, i) ==
    IF i > Len(input) THEN s
    ELSE addSelected(
             IF i \in rows THEN setAddValue(s, input[i]) ELSE s,
             input, rows, i + 1)

\* addSingleGroupInput: one RowSizeTracker on the group's counter around the
\* loop.
addSingleGroupInput(st, group, input, rows) ==
    LET s == addSelected(st.sets[group], input, rows, 1)
        delta == allocatedBy(st.sets[group], s)
    IN [sets |-> [st.sets EXCEPT ![group] = s],
        rowSize |-> [st.rowSize EXCEPT ![group] = RowSizeTracker(@, delta)],
        allocated |-> [st.allocated EXCEPT ![group] = @ + delta]]

\* addSingleGroupSpillInput: sizeAt(index) and offsetAt(index) are read and
\* not used; the whole elements vector goes to addFromSpill. No
\* RowSizeTracker is in scope: the row's counter stays as it is.
addSingleGroupSpillInput(st, group, column, index) ==
    LET size == column.sizes[index]
        offset == column.offsets[index]
        s == addFromSpill(st.sets[group], column.elements)
        delta == allocatedBy(st.sets[group], s)
    IN [sets |-> [st.sets EXCEPT ![group] = s],
        rowSize |-> st.rowSize,
        allocated |-> [st.allocated EXCEPT ![group] = @ + delta]]

\* extractValues that destroys the aggregate's state of the range before it
\* feeds and extracts.
extractValuesDestroyFirst(groups) ==
    LET data == [g \in SetOf(groups) |->
                    SubSeq(setExtractValues(uniqueValues[g]), 1,
                           setSize(uniqueValues[g]))]
    IN [fed |-> data,
        result |-> [g \in SetOf(groups) |-> Len(data[g])],
        calls |-> <<[call |-> "destroy", groups |-> groups]>>
                  \o [i \in 1..Len(groups) |->
                         [call |-> "addSingleGroupRawInput",
                          groups |-> <<groups[i]>>]]
                  \o <<[call |-> "extractValues", groups |-> groups]>>,
        sets |-> uniqueValues]

\* extractValues that clears the set of every group it has fed.
extractValuesAndClear(groups) ==
    LET data == [g \in SetOf(groups) |->
                    SubSeq(setExtractValues(uniqueValues[g]), 1,
                           setSize(uniqueValues[g]))]
    IN [fed |-> data,
        result |-> [g \in SetOf(groups) |-> Len(data[g])],
        calls |-> [i \in 1..Len(groups) |->
                      [call |-> "addSingleGroupRawInput",
                       groups |-> <<groups[i]>>]]
                  \o <<[call |-> "extractValues", groups |-> groups],
                       [call |-> "destroy", groups |-> groups]>>,
        sets |-> [g \in Groups |->
                     IF g \in SetOf(groups) THEN setClear(uniqueValues[g])
                     ELSE uniqueValues[g]]]

\* extractValues for the one wrapped aggregate (count): per group, the set's
\* values are materialized (accumulator->size() rows, all selected) and fed
\* to addSingleGroupRawInput; then the aggregate extracts the range.
\* The calls made on the aggregate function are listed in the order they
\* are made; the sets are read, not written.
extractValues(groups) ==
    LET data == [g \in SetOf(groups) |->
                    SubSeq(setExtractValues(uniqueValues[g]), 1,
                           setSize(uniqueValues[g]))]
    IN [fed |-> data,
        result |-> [g \in SetOf(groups) |-> Len(data[g])],
        calls |-> [i \in 1..Len(groups) |->
                      [call |-> "addSingleGroupRawInput",
                       groups |-> <<groups[i]>>]]
                  \o <<[call |-> "extractValues", groups |-> groups],
                       [call |-> "destroy", groups |-> groups]>>,
        sets |-> uniqueValues]

\* The second loop of extractForSpill: each group writes at the running
\* offset with the capacity left, and is cleared. `writes` lists, per group,
\* the offset it was told to write at, the capacity it was given and the
\* bytes it wrote.
RECURSIVE SpillLoop(_, _, _, _, _)
SpillLoop(groups, i, buffer, totalBytes, sets) ==
    IF i > Len(groups)
    THEN [buffer |-> buffer, sets |-> sets, writes |-> <<>>]
    ELSE LET offset == Len(buffer)
             bytes == setExtractForSpill(sets[groups[i]], totalBytes - offset)
             rest == SpillLoop(groups, i + 1, buffer \o bytes, totalBytes,
                               [sets EXCEPT ![groups[i]] = setClear(@)])
         IN [rest EXCEPT !.writes =
                <<[offset |-> offset, capacity |-> totalBytes - offset,
                   written |-> Len(bytes)]>> \o @]

\* extractForSpill that leaves the sets as they were.
extractForSpillNoClear(groups) ==
    LET n == Len(groups)
        rawSizes == [i \in 1..n |-> maxSpillSize(uniqueValues[groups[i]])]
        totalBytes == SumSeq(rawSizes)
        loop == SpillLoop(groups, 1, <<>>, totalBytes, uniqueValues)
    IN [offsets |-> [i \in 1..n |-> SumSeq(SubSeq(rawSizes, 1, i - 1))],
        sizes |-> rawSizes,
        elements |-> <<loop.buffer>>,
        totalBytes |-> totalBytes,
        writes |-> loop.writes,
        sets |-> uniqueValues]

\* extractForSpill that records a cell's offset after it has advanced the
\* offset by the cell's size.
extractForSpillOffsetsAfter(groups) ==
    LET n == Len(groups)
        rawSizes == [i \in 1..n |-> maxSpillSize(uniqueValues[groups[i]])]
        totalBytes == SumSeq(rawSizes)
        loop == SpillLoop(groups, 1, <<>>, totalBytes, uniqueValues)
    IN [offsets |-> [i \in 1..n |-> SumSeq(SubSeq(rawSizes, 1, i))],
        sizes |-> rawSizes,
        elements |-> <<loop.buffer>>,
        totalBytes |-> totalBytes,
        writes |-> loop.writes,
        sets |-> loop.sets]

\* extractForSpill: rawSizes[i] and rawOffsets[i] from maxSpillSize; the
\* elements vector is resized to one string, which receives every group's
\* records; each group's set is cleared.
extractForSpill(groups) ==
    LET n == Len(groups)
        rawSizes == [i \in 1..n |-> maxSpillSize(uniqueValues[groups[i]])]
        totalBytes == SumSeq(rawSizes)
        loop == SpillLoop(groups, 1, <<>>, totalBytes, uniqueValues)
    IN [offsets |-> [i \in 1..n |-> SumSeq(SubSeq(rawSizes, 1, i - 1))],
        sizes |-> rawSizes,
        elements |-> <<loop.buffer>>,
        totalBytes |-> totalBytes,
        writes |-> loop.writes,
        sets |-> loop.sets]

\* ------------------------------------------------------ aggregation actions

NoResult == -1

\* The spill column: the array cells (offsets, sizes) and the elements
\* vector. Beside it: the size the buffer was given, what each group was
\* told to write where, and per cell the values the cell's group held when
\* it was spilled.
NoSpill == [present |-> FALSE, offsets |-> <<>>, sizes |-> <<>>,
            elements |-> <<>>, totalBytes |-> 0, writes |-> <<>>,
            cellVals |-> <<>>]


\* Non-empty sequences of distinct groups taken from S.
Ranges(S) ==
    {r \in UNION {[1..n -> S] : n \in 1..Cardinality(S)} :
        \A i, j \in 1..Len(r) : i # j => r[i] # r[j]}

NothingExtracted ==
    /\ fed' = [g \in Groups |-> <<>>]
    /\ result' = [g \in Groups |-> NoResult]
    /\ calls' = <<>>

AggInit ==
    /\ alive = [g \in Groups |-> FALSE]
    /\ uniqueValues = [g \in Groups |-> <<>>]
    /\ aggState = [g \in Groups |-> "none"]
    /\ fed = [g \in Groups |-> <<>>]
    /\ result = [g \in Groups |-> NoResult]
    /\ calls = <<>>
    /\ spill = NoSpill
    /\ mode = [g \in Groups |-> "none"]
    /\ added = [g \in Groups |-> {}]
    /\ rowSize = [g \in Groups |-> 0]
    /\ allocated = [g \in Groups |-> 0]
    /\ nullBit = [g \in Groups |-> FALSE]

\* Aggregate::isNull: the slot of a row is null when its bit is set.
isNull(bit) == bit

\* initializeNewGroups(groups, indices): the null bit is or-ed into every
\* indicated row and a fresh set is constructed there; the wrapped aggregate
\* initializes the same rows. The rows are new rows of the operator: their
\* row-size counters are zero.
InitializeNewGroups ==
    /\ \E S \in SUBSET {g \in Groups : ~alive[g]} :
          /\ S # {}
          /\ nullBit' = [g \in Groups |-> IF g \in S THEN TRUE ELSE nullBit[g]]
          /\ alive' = [g \in Groups |-> alive[g] \/ g \in S]
          /\ uniqueValues' = [g \in Groups |->
                                 IF g \in S THEN <<>> ELSE uniqueValues[g]]
          /\ aggState' = [g \in Groups |->
                             IF g \in S THEN "init" ELSE aggState[g]]
          /\ mode' = [g \in Groups |-> IF g \in S THEN "fresh" ELSE mode[g]]
          /\ added' = [g \in Groups |-> IF g \in S THEN {} ELSE added[g]]
          /\ rowSize' = [g \in Groups |-> IF g \in S THEN 0 ELSE rowSize[g]]
          /\ allocated' = [g \in Groups |->
                              IF g \in S THEN 0 ELSE allocated[g]]
    /\ NothingExtracted
    /\ UNCHANGED spill
    /\ UNCHANGED <<storeVars, callVars>>

\* The operator's use of the rows (spec, 4.2: Uninitialized -> Active ->
\* {Extracted | Spilled} -> Destroyed). A row takes raw input while it is
\* accumulating ("fresh", "plain", or "cleared" after a spill found
\* unnecessary); a row rebuilt from spilled cells ("restored") takes spill
\* input only; a row whose final value was extracted is only destroyed.
Accumulating == {g \in Groups : /\ alive[g]
                                /\ aggState[g] = "init"
                                /\ mode[g] \in {"fresh", "plain", "cleared"}}

Rebuilding == {g \in Groups : /\ alive[g]
                              /\ aggState[g] = "init"
                              /\ mode[g] \in {"fresh", "restored"}}

AfterAdd(m) == IF m = "fresh" THEN "plain" ELSE m

\* Rows that are not selected are never read: they carry the least value and
\* the least group of S. A batch of n rows is given by what its selected
\* rows hold.
Least(S) == CHOOSE x \in S : \A y \in S : x <= y

Unselected(f, rows, n, S) ==
    LET least == Least(S)
    IN [i \in 1..n |-> IF i \in rows THEN f[i] ELSE least]

AddInput ==
    /\ Accumulating # {}
    /\ \E n \in 1..MaxRows :
       \E rows \in SUBSET (1..n) :
       \E selected \in [rows -> Values], owner \in [rows -> Accumulating] :
          LET input == Unselected(selected, rows, n, Values)
              groups == Unselected(owner, rows, n, Accumulating)
              touched(g) == {input[i] : i \in {j \in rows : groups[j] = g}}
              out == addInput(Rows, groups, input, rows, 1)
          IN /\ \A g \in Groups : out.allocated[g] <= MaxRowBytes
             /\ uniqueValues' = out.sets
             /\ rowSize' = out.rowSize
             /\ allocated' = out.allocated
             /\ mode' = [g \in Groups |->
                            IF touched(g) # {} THEN AfterAdd(mode[g])
                            ELSE mode[g]]
             /\ added' = [g \in Groups |-> added[g] \cup touched(g)]
    /\ NothingExtracted
    /\ UNCHANGED <<alive, aggState, spill, nullBit>>
    /\ UNCHANGED <<storeVars, callVars>>

AddSingleGroupInput ==
    /\ \E g \in Accumulating, n \in 1..MaxRows :
       \E rows \in SUBSET (1..n) :
       \E selected \in [rows -> Values] :
          LET input == Unselected(selected, rows, n, Values)
              out == addSingleGroupInput(Rows, g, input, rows)
          IN /\ out.allocated[g] <= MaxRowBytes
             /\ uniqueValues' = out.sets
             /\ rowSize' = out.rowSize
             /\ allocated' = out.allocated
             /\ mode' = [mode EXCEPT
                       ![g] = IF rows # {} THEN AfterAdd(@) ELSE @]
             /\ added' = [added EXCEPT ![g] = @ \cup {input[i] : i \in rows}]
    /\ NothingExtracted
    /\ UNCHANGED <<alive, aggState, spill, nullBit>>
    /\ UNCHANGED <<storeVars, callVars>>

\* addSingleGroupSpillInput(group, spill column, index).
AddSingleGroupSpillInput ==
    /\ spill.present
    /\ \E g \in Rebuilding, index \in 1..Len(spill.offsets) :
          LET out == addSingleGroupSpillInput(Rows, g, spill, index)
          IN /\ out.allocated[g] <= MaxRowBytes
             /\ uniqueValues' = out.sets
             /\ rowSize' = out.rowSize
             /\ allocated' = out.allocated
             /\ mode' = [mode EXCEPT
                       ![g] = "restored"]
             /\ added' = [added EXCEPT
                       ![g] = @ \cup SetOf(spill.cellVals[index])]
    /\ NothingExtracted
    /\ UNCHANGED <<alive, aggState, spill, nullBit>>
    /\ UNCHANGED <<storeVars, callVars>>

\* extractValues(groups, result): feed, extract, then destroy the
\* aggregate's state of the range.
ExtractValues ==
    /\ \E groups \in Ranges({g \in Groups : alive[g] /\ aggState[g] = "init"}) :
          LET out == extractValues(groups)
          IN /\ fed' = [g \in Groups |->
                           IF g \in SetOf(groups) THEN out.fed[g] ELSE <<>>]
             /\ result' = [g \in Groups |->
                           IF g \in SetOf(groups) THEN out.result[g]
                           ELSE NoResult]
             /\ calls' = out.calls
             /\ aggState' = [g \in Groups |->
                           IF \E i \in DOMAIN out.calls :
                                 /\ out.calls[i].call = "destroy"
                                 /\ g \in SetOf(out.calls[i].groups)
                           THEN "destroyed"
                           ELSE aggState[g]]
             /\ uniqueValues' = out.sets
    /\ UNCHANGED <<alive, spill, mode, added>>
    /\ UNCHANGED <<rowSize, allocated, nullBit>>
    /\ UNCHANGED <<storeVars, callVars>>

\* The accumulator descriptor's spill callback.
ExtractForSpill ==
    /\ \E groups \in Ranges({g \in Groups : alive[g] /\ aggState[g] = "init"}) :
          LET out == extractForSpill(groups)
              n == Len(groups)
          IN /\ spill' = [present |-> TRUE, offsets |-> out.offsets,
                          sizes |-> out.sizes, elements |-> out.elements,
                          totalBytes |-> out.totalBytes,
                          writes |-> out.writes,
                          cellVals |-> [i \in 1..n |-> uniqueValues[groups[i]]]]
             /\ uniqueValues' = out.sets
             /\ mode' = [g \in Groups |->
                            IF g \in SetOf(groups) THEN "cleared" ELSE mode[g]]
             /\ added' = [g \in Groups |->
                            IF g \in SetOf(groups) THEN {} ELSE added[g]]
    /\ NothingExtracted
    /\ UNCHANGED <<alive, aggState, rowSize, allocated, nullBit>>
    /\ UNCHANGED <<storeVars, callVars>>

\* The accumulator descriptor's destroy callback: accumulator->free on every
\* row of the range; the rows go back to the operator, which zeroes the
\* flags and counters of a row it hands out again.
FreeGroups ==
    /\ \E groups \in Ranges({g \in Groups : alive[g]}) :
          /\ alive' = [g \in Groups |-> alive[g] /\ g \notin SetOf(groups)]
          /\ uniqueValues' = [g \in Groups |->
                   IF g \in SetOf(groups) THEN <<>> ELSE uniqueValues[g]]
          /\ aggState' = [g \in Groups |->
                   IF g \in SetOf(groups) THEN "none" ELSE aggState[g]]
          /\ mode' = [g \in Groups |->
                   IF g \in SetOf(groups) THEN "none" ELSE mode[g]]
          /\ added' = [g \in Groups |->
                   IF g \in SetOf(groups) THEN {} ELSE added[g]]
          /\ rowSize' = [g \in Groups |->
                   IF g \in SetOf(groups) THEN 0 ELSE rowSize[g]]
          /\ allocated' = [g \in Groups |->
                   IF g \in SetOf(groups) THEN 0 ELSE allocated[g]]
          /\ nullBit' = [g \in Groups |->
                   IF g \in SetOf(groups) THEN FALSE ELSE nullBit[g]]
    /\ NothingExtracted
    /\ UNCHANGED spill
    /\ UNCHANGED <<storeVars, callVars>>

\* ---------------------------------------------- DistinctAggregations::create

\* Most input columns an aggregate declares, and most aggregates handed to
\* create.
MaxInputs == 2
MaxAggregates == 2

\* The TypeKinds create switches on, and kinds it has no case for.
SupportedKinds == {"BOOLEAN", "TINYINT", "SMALLINT", "INTEGER", "BIGINT",
                   "REAL", "DOUBLE", "TIMESTAMP", "VARCHAR", "ARRAY", "MAP",
                   "ROW"}

\* The operator's input row type: the kind of each column.
InputType == <<"BOOLEAN", "TINYINT", "SMALLINT", "INTEGER", "BIGINT", "REAL",
               "DOUBLE", "TIMESTAMP", "VARCHAR", "ARRAY", "MAP", "ROW",
               "VARBINARY", "HUGEINT", "UNKNOWN">>

\* makeInputTypeForAccumulator: the type of the one input column, or a ROW
\* of the types of the input columns in the order they are declared.
makeInputTypeForAccumulator(rowType, inputs) ==
    IF Len(inputs) = 1
    THEN rowType[inputs[1]]
    ELSE [i \in 1..Len(inputs) |-> rowType[inputs[i]]]

\* The constructor: inputs_ and inputType_ come from the first aggregate.
TypedDistinctAggregations(T, aggregates, inputType) ==
    [status |-> "instance", T |-> T,
     inputs_ |-> aggregates[1].inputs,
     inputType_ |-> makeInputTypeForAccumulator(inputType,
                                                aggregates[1].inputs)]

\* A failed VELOX_CHECK or VELOX_UNREACHABLE: an exception, no instance.
Fatal == [status |-> "fatal", T |-> "", inputs_ |-> <<>>, inputType_ |-> ""]

NotCalled == [status |-> "none", T |-> "", inputs_ |-> <<>>, inputType_ |-> ""]

\* create that takes one aggregate or more.
createAtLeastOne(aggregates, inputType) ==
    IF Len(aggregates) < 1 THEN Fatal
    ELSE IF aggregates[1].inputs = <<>> THEN Fatal
    ELSE IF Len(aggregates[1].inputs) # 1
    THEN TypedDistinctAggregations("ComplexType", aggregates, inputType)
    ELSE LET kind == inputType[aggregates[1].inputs[1]]
             instance(T) == TypedDistinctAggregations(T, aggregates, inputType)
         IN CASE kind = "BOOLEAN" -> instance("bool")
              [] kind = "TINYINT" -> instance("int8_t")
              [] kind = "SMALLINT" -> instance("int16_t")
              [] kind = "INTEGER" -> instance("int32_t")
              [] kind = "BIGINT" -> instance("int64_t")
              [] kind = "REAL" -> instance("float")
              [] kind = "DOUBLE" -> instance("double")
              [] kind = "TIMESTAMP" -> instance("Timestamp")
              [] kind = "VARCHAR" -> instance("StringView")
              [] kind \in {"ARRAY", "MAP", "ROW"} -> instance("ComplexType")
              [] OTHER -> Fatal

create(aggregates, inputType) ==
    IF Len(aggregates) # 1 THEN Fatal
    ELSE IF aggregates[1].inputs = <<>> THEN Fatal
    ELSE IF Len(aggregates[1].inputs) # 1
    THEN TypedDistinctAggregations("ComplexType", aggregates, inputType)
    ELSE LET kind == inputType[aggregates[1].inputs[1]]
             instance(T) == TypedDistinctAggregations(T, aggregates, inputType)
         IN CASE kind = "BOOLEAN" -> instance("bool")
              [] kind = "TINYINT" -> instance("int8_t")
              [] kind = "SMALLINT" -> instance("int16_t")
              [] kind = "INTEGER" -> instance("int32_t")
              [] kind = "BIGINT" -> instance("int64_t")
              [] kind = "REAL" -> instance("float")
              [] kind = "DOUBLE" -> instance("double")
              [] kind = "TIMESTAMP" -> instance("Timestamp")
              [] kind = "VARCHAR" -> instance("StringView")
              [] kind \in {"ARRAY", "MAP", "ROW"} -> instance("ComplexType")
              [] OTHER -> Fatal

\* The aggregates handed to create: the first declares any columns of the
\* input; the ones after it declare none or the first column.
InputLists == UNION {[1..n -> DOMAIN InputType] : n \in 0..MaxInputs}

AggregateLists ==
    {<<>>} \cup
    {<<[inputs |-> first]>> \o rest :
        first \in InputLists,
        rest \in UNION {[1..k -> {[inputs |-> <<>>], [inputs |-> <<1>>]}] :
                          k \in 0..(MaxAggregates - 1)}}

NoFactory == [aggregates |-> <<>>, outcome |-> NotCalled]

Create ==
    /\ factory.outcome = NotCalled
    /\ factory' = [factory EXCEPT
                      !.outcome = create(factory.aggregates, InputType)]
    /\ UNCHANGED <<aggVars, storeVars, composite, routing>>

\* ------------------------------------------------ several input columns

\* The input of the composite aggregation: (x: integer, y: varchar,
\* z: integer), a varchar given by its character code; and the rows its
\* batches are made of.
BatchType == <<"INTEGER", "VARCHAR", "INTEGER">>

BatchRows == {<<1, 97, 1>>, <<1, 97, 2>>, <<1, 98, 1>>, <<2, 97, 1>>}

\* A RowVector of the given children (columns of `size` values): row i holds
\* the i-th value of every child.
RowVector(children, size) ==
    [i \in 1..size |-> [k \in DOMAIN children |-> children[k][i]]]

\* RowVector::children of a vector of `width` columns.
children(vector, width) ==
    [k \in 1..width |-> [i \in DOMAIN vector |-> vector[i][k]]]

isSingleInputAggregate(inputs) == Len(inputs) = 1

\* makeInputForAccumulator that takes the leading columns of the batch.
makeInputForAccumulatorLeading(inputs, input, size) ==
    IF isSingleInputAggregate(inputs)
    THEN input[1]
    ELSE RowVector([i \in 1..Len(inputs) |-> input[i]], size)

\* makeInputForAccumulator: the one declared column, or a RowVector whose
\* i-th child is the column inputs_[i] of the batch.
makeInputForAccumulator(inputs, input, size) ==
    IF isSingleInputAggregate(inputs)
    THEN input[inputs[1]]
    ELSE RowVector([i \in 1..Len(inputs) |-> input[inputs[i]]], size)

\* makeInputForAggregation: the vector itself, or the children of the
\* RowVector.
makeInputForAggregation(inputs, data) ==
    IF isSingleInputAggregate(inputs)
    THEN <<data>>
    ELSE children(data, Len(inputs))

\* extractValues over the one group of the composite aggregation: the set's
\* values are materialized and handed to the aggregate (count) as its input
\* columns.
extractValuesOfRow(inputs, set) ==
    LET data == SubSeq(setExtractValues(set), 1, setSize(set))
    IN [fed |-> makeInputForAggregation(inputs, data),
        result |-> Len(data)]

NoComposite == [inputs_ |-> <<>>, uniqueValues |-> <<>>, rowSize |-> 0,
                seen |-> {}, fed |-> <<>>, result |-> NoResult]

\* addSingleGroupInput of the composite aggregation on its group row.
AddCompositeInput ==
    /\ composite.result = NoResult
    /\ \E n \in 1..MaxRows :
       \E rows \in SUBSET (1..n) :
       \E selected \in [rows -> BatchRows] :
          LET batch == [i \in 1..n |->
                          IF i \in rows THEN selected[i]
                          ELSE CHOOSE r \in BatchRows : TRUE]
              input == children(batch, Len(BatchType))
              decoded == makeInputForAccumulator(composite.inputs_, input, n)
              st == [sets |-> <<composite.uniqueValues>>,
                     rowSize |-> <<composite.rowSize>>,
                     allocated |-> <<composite.rowSize>>]
              out == addSingleGroupInput(st, 1, decoded, rows)
          IN composite' = [composite EXCEPT
                              !.uniqueValues = out.sets[1],
                              !.rowSize = out.rowSize[1],
                              !.seen = @ \cup {selected[i] : i \in rows}]
    /\ UNCHANGED <<aggVars, storeVars, factory, routing>>

\* extractValues of the composite aggregation over its group row.
ExtractCompositeValues ==
    /\ composite.result = NoResult
    /\ LET out == extractValuesOfRow(composite.inputs_, composite.uniqueValues)
       IN composite' = [composite EXCEPT !.fed = out.fed,
                                         !.result = out.result]
    /\ UNCHANGED <<aggVars, storeVars, factory, routing>>

\* ---- addInput and addSingleGroupInput on one batch ----

\* The sets a group can hold before the batch arrives.
SetsBefore == {<<>>, <<5>>, <<7>>, <<5, 7>>, <<7, 5>>}

\* Rows whose groups hold `sets`, each counter at the bytes its set drew.
RowsHolding(sets) ==
    [sets |-> sets,
     rowSize |-> [g \in Groups |-> allocatedBy(<<>>, sets[g])],
     allocated |-> [g \in Groups |-> allocatedBy(<<>>, sets[g])]]

\* No batch given yet. `single.group = 0`: addSingleGroupInput not called.
NoRouting ==
    [called |-> FALSE, st |-> RowsHolding([g \in Groups |-> <<>>]),
     groups |-> <<>>, input |-> <<>>, rows |-> {},
     after |-> RowsHolding([g \in Groups |-> <<>>]),
     single |-> [group |-> 0, st |-> RowsHolding([g \in Groups |-> <<>>])]]

\* addInput(groups, rows, args) on the rows as they were before the batch.
RouteAddInput ==
    /\ ~routing.called
    /\ routing' = [routing EXCEPT
            !.called = TRUE,
            !.after = addInput(routing.st, routing.groups, routing.input,
                               routing.rows, 1)]
    /\ UNCHANGED <<aggVars, storeVars, factory, composite>>

\* addSingleGroupInput(group, rows, args) with the same batch and selection,
\* on the rows as they were before the batch.
RouteAddSingleGroupInput ==
    /\ routing.single.group = 0
    /\ \E group \in Groups :
          routing' = [routing EXCEPT
              !.single = [group |-> group,
                          st |-> addSingleGroupInput(routing.st, group,
                                     routing.input, routing.rows)]]
    /\ UNCHANGED <<aggVars, storeVars, factory, composite>>

\* ----------------------------------------------------------- specifications

NoCalls ==
    /\ factory = NoFactory
    /\ composite = NoComposite
    /\ routing = NoRouting


vars == <<aggVars, storeVars, callVars>>

Init == AggInit /\ StoreInit /\ NoCalls

Next ==
    \/ InitializeNewGroups
    \/ AddInput
    \/ AddSingleGroupInput
    \/ AddSingleGroupSpillInput
    \/ ExtractValues
    \/ ExtractForSpill
    \/ FreeGroups

Spec == Init /\ [][Next]_vars

StoreNext ==
    \/ AppendValue
    \/ AppendSerializedRecord
    \/ AppendSerializedCopy
    \/ CopySerialized

StoreSpec == Init /\ [][StoreNext]_vars

CreateInit ==
    /\ AggInit /\ StoreInit
    /\ factory \in [aggregates : AggregateLists, outcome : {NotCalled}]
    /\ composite = NoComposite
    /\ routing = NoRouting

CreateNext == Create

\* The instances create makes for one aggregate over the columns of
\* BatchType.
CompositeInit ==
    /\ AggInit /\ StoreInit
    /\ factory = NoFactory
    /\ routing = NoRouting
    /\ \E n \in 1..MaxInputs :
       \E inputs \in [1..n -> DOMAIN BatchType] :
          composite = [NoComposite EXCEPT
              !.inputs_ = create(<<[inputs |-> inputs]>>, BatchType).inputs_]

CompositeNext ==
    \/ AddCompositeInput
    \/ ExtractCompositeValues

CompositeSpec == CompositeInit /\ [][CompositeNext]_vars

CreateSpec == CreateInit /\ [][CreateNext]_vars

\* Initialized groups holding any sets, and one batch: values, group
\* pointers and a selection. The entries of unselected rows are arbitrary.
RoutingInit ==
    /\ AggInit /\ StoreInit
    /\ factory = NoFactory
    /\ composite = NoComposite
    /\ \E sets \in [Groups -> SetsBefore] :
       \E n \in 1..MaxRows :
       \E input \in [1..n -> Values] :
       \E groups \in [1..n -> Groups] :
       \E rows \in SUBSET (1..n) :
          routing = [NoRouting EXCEPT
              !.st = RowsHolding(sets), !.groups = groups, !.input = input,
              !.rows = rows, !.after = RowsHolding(sets),
              !.single = [group |-> 0, st |-> RowsHolding(sets)]]

RoutingNext ==
    \/ RouteAddInput
    \/ RouteAddSingleGroupInput

RoutingSpec == RoutingInit /\ [][RoutingNext]_vars

\* ------------------------------------------------------------------ claims

RECURSIVE Flatten(_)
Flatten(ss) == IF ss = <<>> THEN <<>> ELSE Head(ss) \o Flatten(Tail(ss))

\* The value whose record the caller handed to append i.
ValueOf(i) == CHOOSE v \in StringValues : RecordOf(v) = appended[i]

\* C1: after extractValues, a group that only took raw input (addInput and
\* addSingleGroupInput, in any mix) has fed its aggregate every distinct value
\* added to it exactly once and no other value, and the extracted count is
\* the number of its distinct values.
C1_DistinctSemantics ==
    \A g \in Groups :
        (mode[g] \in {"fresh", "plain"} /\ result[g] # NoResult) =>
            /\ SetOf(fed[g]) = added[g]
            /\ Len(fed[g]) = Cardinality(added[g])
            /\ result[g] = Cardinality(added[g])

\* Group 1 was given 5 and 7, group 2 only 7; the counts are 2 and 1.
C1_Witness ==
    /\ mode[1] = "plain" /\ mode[2] = "plain"
    /\ added[1] = {5, 7} /\ added[2] = {7}
    /\ result[1] = 2 /\ result[2] = 1

\* C2: a group rebuilt from a spilled cell holds as many values as the
\* spilled group held, and extractValues gives the count the spilled group
\* would have given.
C2_SpillRoundTrip ==
    \A g \in Groups :
        mode[g] = "restored" =>
            /\ Len(uniqueValues[g]) = Cardinality(added[g])
            /\ (result[g] # NoResult => result[g] = Cardinality(added[g]))

\* C3: addSingleGroupSpillInput inserts the elements of cell `index` and no
\* element of another cell.
C3_RestoresOnlyIndexedCell ==
    \A g \in Groups :
        mode[g] = "restored" => SetOf(uniqueValues[g]) = added[g]

\* C4: the positions returned so far are pairwise distinct, and each still
\* reads back the bytes appended there: the hash and the value of an appended
\* record, whatever was appended later.
C4_PositionStability ==
    \A i \in 1..Len(positions) :
        /\ \A j \in 1..Len(positions) : i # j => positions[i] # positions[j]
        /\ StreamRead(prepareRead(positions[i], FALSE), Len(appended[i]))
             = appended[i]
        /\ origin[i] = 0 =>
             /\ readHash(positions[i]) = LE(hashValueAt(ValueOf(i)), kHashSize)
             /\ read(positions[i]) = ValueOf(i)

\* Three records larger than the initial block, over three blocks, the first
\* still read back after the later two.
C4_Witness ==
    /\ Len(positions) = 3
    /\ Len(blocks) >= 3
    /\ \A i \in 1..3 : Len(appended[i]) > kInitialSize
    /\ read(positions[1]) = BigValue

\* C5: a record copied out with copySerializedTo into a buffer of the size
\* getSerializedSize reports and appended with appendSerialized reads like
\* the original: same hash, same value, equalTo.
C5_CopyFidelity ==
    \A q \in 1..Len(positions) :
        origin[q] # 0 =>
            /\ readHash(positions[q]) = readHash(positions[origin[q]])
            /\ read(positions[q]) = read(positions[origin[q]])
            /\ equalTo(positions[origin[q]], positions[q])

\* C6: getSerializedSize is the length of the record at the position (hash
\* and payload), and copySerializedTo returns that length and copies that
\* record.
C6_SerializedSizeIsRecord ==
    /\ \A i \in 1..Len(positions) :
          origin[i] = 0 => getSerializedSize(positions[i]) = Len(appended[i])
    /\ (copyOut.status = "ok" /\ origin[copyOut.from] = 0) =>
          /\ copyOut.ret = Len(appended[copyOut.from])
          /\ SubSeq(copyOut.buffer, 1, copyOut.ret) = appended[copyOut.from]

\* C7: a record is the hash followed by the payload: readHash gives the hash
\* of the appended value, read gives the value, and equalTo compares the
\* payloads alone, wherever the record lies.
C7_HashConsistency ==
    \A i \in 1..Len(positions) :
        origin[i] = 0 =>
            /\ readHash(positions[i]) = LE(hashValueAt(ValueOf(i)), kHashSize)
            /\ StreamRead(prepareRead(positions[i], TRUE),
                          Len(serialize(ValueOf(i)))) = serialize(ValueOf(i))
            /\ \A j \in 1..Len(positions) :
                  origin[j] = 0 =>
                    (equalTo(positions[i], positions[j])
                       <=> ValueOf(i) = ValueOf(j))

\* A third record whose hash starts in one block and ends in the next.
C7_Witness ==
    \E i \in 3..Len(positions) :
        /\ origin[i] = 0
        /\ positions[i].offset < blocks[positions[i].header]
        /\ positions[i].offset + kHashSize > blocks[positions[i].header]
        /\ readHash(positions[i]) = LE(hashValueAt(ValueOf(i)), kHashSize)

\* C8: copySerializedTo fails without writing the buffer when the capacity
\* is below the reported size, and otherwise succeeds and returns the
\* reported size.
C8_CopyBounds ==
    copyOut.status # "none" =>
        IF copyOut.capacity < copyOut.reported
        THEN /\ copyOut.status = "fatal"
             /\ copyOut.buffer = Const(copyOut.capacity, 0)
        ELSE /\ copyOut.status = "ok"
             /\ copyOut.ret = copyOut.reported

\* A copy refused for a buffer one byte short.
C8_Witness ==
    /\ copyOut.status = "fatal"
    /\ copyOut.capacity = copyOut.reported - 1
    /\ copyOut.buffer = Const(copyOut.capacity, 0)

\* C9: the spill column has one cell and one string per group, string i
\* holds the records of group i, and every cell's range lies within the
\* elements vector.
C9_SpillShape ==
    spill.present =>
        LET n == Len(spill.cellVals)
        IN /\ Len(spill.offsets) = n
           /\ Len(spill.sizes) = n
           /\ Len(spill.elements) = n
           /\ \A i \in 1..n :
                 /\ spill.elements[i] = ConcatRecords(spill.cellVals[i])
                 /\ spill.offsets[i] + spill.sizes[i] <= Len(spill.elements)

\* C10: a group extracted for spill is empty and stays usable: it holds
\* just the values added since (none right after the spill), extractValues
\* feeds just those, and the bytes an extractForSpill writes are the records
\* of the values its groups held at that call, group after group.
C10_ClearedAndReusable ==
    /\ \A g \in Groups :
          mode[g] = "cleared" =>
            /\ SetOf(uniqueValues[g]) = added[g]
            /\ Len(uniqueValues[g]) = Cardinality(added[g])
            /\ result[g] # NoResult =>
                  /\ SetOf(fed[g]) = added[g]
                  /\ result[g] = Cardinality(added[g])
    /\ spill.present =>
          DecodeRecords(spill.elements[1]) = Flatten(spill.cellVals)

\* Group 1 was spilled holding 5, then given 7, and extractValues counts 1;
\* group 2 was never used.
C10_Witness ==
    /\ spill.cellVals = << <<5>> >>
    /\ mode[1] = "cleared" /\ mode[2] = "none"
    /\ uniqueValues[1] = <<7>>
    /\ result[1] = 1

\* C11: the row-size counter of every row equals the bytes allocated for
\* that row's set, whatever mix of addInput, addSingleGroupInput and
\* addSingleGroupSpillInput filled it.
C11_RowSizeAccounting ==
    \A g \in Groups : alive[g] => rowSize[g] = allocated[g]

\* C12: a step that initializes rows leaves each of them with an empty set,
\* its slot flagged non-null, and the wrapped aggregate initialized there.
C12_InitializedGroups ==
    [][\A g \in Groups :
          (~alive[g] /\ alive'[g]) =>
              /\ uniqueValues'[g] = <<>>
              /\ ~isNull(nullBit'[g])
              /\ aggState'[g] = "init"]_vars

\* C13: create fails, giving no instance, when it is handed no aggregate or
\* more than one, or one aggregate that declares no input; it gives an
\* instance for one aggregate whose inputs (one or several) are of kinds it
\* supports.
C13_CreateContract ==
    factory.outcome # NotCalled =>
        LET aggregates == factory.aggregates
        IN IF Len(aggregates) # 1
           THEN factory.outcome = Fatal
           ELSE IF aggregates[1].inputs = <<>>
           THEN factory.outcome = Fatal
           ELSE (\A i \in DOMAIN aggregates[1].inputs :
                    InputType[aggregates[1].inputs[i]] \in SupportedKinds)
                  => /\ factory.outcome.status = "instance"
                     /\ factory.outcome.inputs_ = aggregates[1].inputs

\* create refused two aggregates whose first is a distinct count over the
\* bigint column.
C13_Witness ==
    /\ Len(factory.aggregates) = 2
    /\ factory.aggregates[1].inputs = <<5>>
    /\ factory.outcome = Fatal

\* C14: the set of the composite aggregation holds one element per distinct
\* combination of the declared columns among the rows added, made of those
\* columns in declared order, and extractValues hands the aggregate one
\* column per declared column, in that order.
C14_CompositeKey ==
    LET inputs == composite.inputs_
        key(r) == IF Len(inputs) = 1 THEN r[inputs[1]]
                  ELSE [i \in 1..Len(inputs) |-> r[inputs[i]]]
        keys == {key(r) : r \in composite.seen}
    IN /\ SetOf(composite.uniqueValues) = keys
       /\ Len(composite.uniqueValues) = Cardinality(keys)
       /\ composite.result # NoResult =>
             /\ Len(composite.fed) = Len(inputs)
             /\ composite.result = Cardinality(keys)
             /\ \A i \in 1..Len(inputs) :
                   /\ Len(composite.fed[i]) = Cardinality(keys)
                   /\ \A j \in 1..Len(composite.uniqueValues) :
                         \E r \in composite.seen :
                            /\ key(r) = composite.uniqueValues[j]
                            /\ composite.fed[i][j] = r[inputs[i]]

\* The distinct columns are (y, x); rows (1,"a"), (1,"a") and (1,"b") were
\* added and the two elements came out as the columns y and x.
C14_Witness ==
    /\ composite.inputs_ = <<2, 1>>
    /\ composite.seen = {<<1, 97, 1>>, <<1, 97, 2>>, <<1, 98, 1>>}
    /\ composite.uniqueValues = <<<<97, 1>>, <<98, 1>>>>
    /\ composite.fed = <<<<97, 98>>, <<1, 1>>>>
    /\ composite.result = 2

\* C15: the calls extractValues makes on the aggregate are one
\* addSingleGroupRawInput per group of the range, in the order of the range,
\* each with the group's distinct values, then one extractValues over the
\* range, then destroy over the range, and nothing else.
C15_ExtractOrder ==
    calls # <<>> =>
        LET n == Len(calls) - 2
            range == calls[n + 1].groups
        IN /\ n >= 1
           /\ Len(range) = n
           /\ \A i \in 1..n :
                 /\ calls[i].call = "addSingleGroupRawInput"
                 /\ calls[i].groups = <<range[i]>>
                 /\ fed[range[i]] = uniqueValues[range[i]]
                 /\ result[range[i]] = Len(uniqueValues[range[i]])
           /\ calls[n + 1].call = "extractValues"
           /\ calls[n + 2] = [call |-> "destroy", groups |-> range]
           /\ \A g \in Groups :
                 (g \in SetOf(range)) <=> result[g] # NoResult
           /\ \A g \in SetOf(range) : aggState[g] = "destroyed"

\* The range was (group 2, group 1), both holding values: group 2 was fed
\* first.
C15_Witness ==
    /\ Len(calls) = 4
    /\ calls[1] = [call |-> "addSingleGroupRawInput", groups |-> <<2>>]
    /\ calls[2] = [call |-> "addSingleGroupRawInput", groups |-> <<1>>]
    /\ calls[3] = [call |-> "extractValues", groups |-> <<2, 1>>]
    /\ uniqueValues[1] = <<5, 7>>
    /\ uniqueValues[2] = <<7>>

\* C17: an extractValues step leaves every row and every set as it was, and
\* a set loses values only in a step that destroys its row or spills it.
C17_ExtractKeepsSets ==
    [][/\ calls' # <<>> => (uniqueValues' = uniqueValues /\ alive' = alive)
       /\ \A g \in Groups :
             (\E v \in SetOf(uniqueValues[g]) :
                 v \notin SetOf(uniqueValues'[g])) =>
                   \/ alive[g] /\ ~alive'[g]
                   \/ /\ spill'.present
                      /\ uniqueValues'[g] = <<>>
                      /\ \E i \in DOMAIN spill'.cellVals :
                            spill'.cellVals[i] = uniqueValues[g]]_vars

\* Both groups hold values after an extractValues over them.
C17_Witness ==
    /\ Len(calls) = 4
    /\ result[1] = 2 /\ result[2] = 1
    /\ Len(uniqueValues[1]) = 2 /\ Len(uniqueValues[2]) = 1
    /\ alive[1] /\ alive[2]

\* The place of a position in the chain, counted in bytes from its start.
ChainOffset(position) == BlockStart(blocks, position.header) + position.offset

\* C16: the store asks for a new write once, at its first append, for the
\* initial block; the first-block reference set then stays; the first
\* record starts that block and every later record starts where the one
\* before it ended and holds the bytes appended.
C16_ChunkPacking ==
    /\ newWrites = (IF size_ = 0 THEN 0 ELSE 1)
    /\ size_ = 0 => firstHeader_ = 0
    /\ size_ > 0 =>
          /\ firstHeader_ = positions[1].header
          /\ positions[1].offset = 0
          /\ blocks[firstHeader_] = kInitialSize
    /\ \A i \in 1..Len(positions) :
          /\ SubSeq(mem, ChainOffset(positions[i]) + 1,
                    ChainOffset(positions[i]) + Len(appended[i]))
                = appended[i]
          /\ i < Len(positions) =>
                ChainOffset(positions[i + 1])
                  = ChainOffset(positions[i]) + Len(appended[i])
    /\ size_ > 0 =>
          ChainOffset(currentPosition_)
            = ChainOffset(positions[size_]) + Len(appended[size_])

\* Three records after one new write: the second starts inside the initial
\* block behind the first, the third in a later block.
C16_Witness ==
    /\ size_ = 3
    /\ newWrites = 1
    /\ positions[2].header = 1
    /\ positions[2].offset = Len(appended[1])
    /\ positions[3].header > 1
    /\ ChainOffset(positions[3])
         = ChainOffset(positions[2]) + Len(appended[2])

IsPrefix(s, t) == Len(s) <= Len(t) /\ SubSeq(t, 1, Len(s)) = s

\* C18: addInput puts the value of every selected row i into the set of
\* groups[i], puts nothing into a set that it was not routed to, leaves the
\* sets of groups owning no selected row as they were; and when every
\* selected row maps to one group g, g's set ends as addSingleGroupInput(g)
\* on the same batch and selection leaves it.
C18_RowRouting ==
    routing.called =>
        LET before == routing.st.sets
            after == routing.after.sets
            owned(g) == {i \in routing.rows : routing.groups[i] = g}
        IN /\ \A i \in routing.rows :
                 routing.input[i] \in SetOf(after[routing.groups[i]])
           /\ \A g \in Groups :
                 /\ IsPrefix(before[g], after[g])
                 /\ SetOf(after[g]) \ SetOf(before[g])
                      \subseteq {routing.input[i] : i \in owned(g)}
                 /\ Len(after[g]) = Cardinality(SetOf(after[g]))
                 /\ owned(g) = {} => after[g] = before[g]
           /\ \A g \in Groups :
                 (/\ routing.single.group = g
                  /\ \A i \in routing.rows : routing.groups[i] = g)
                 => after[g] = routing.single.st.sets[g]

\* A batch of two rows with different values for different groups, the
\* first selected and the second not, its value new to both groups: after
\* addInput only the first row's group holds the first row's value, and the
\* second row's value is in neither set; addSingleGroupInput on the first
\* row's group was called too.
C18_Witness ==
    /\ routing.called
    /\ routing.rows = {1}
    /\ routing.groups = <<2, 1>>
    /\ routing.input = <<5, 7>>
    /\ routing.st.sets = [g \in Groups |-> <<>>]
    /\ routing.after.sets = [g \in Groups |-> IF g = 2 THEN <<5>> ELSE <<>>]
    /\ routing.single.group = 2

====
